---- MODULE Spec2Model ----
(***************************************************************************)
(* Model of packages/wm/src/common/platform/event_window.rs: the hidden    *)
(* event window of the window manager.  The control thread owns an         *)
(* EventWindow (new / update / destroy / drop); the window thread starts   *)
(* the hooks, creates the window, runs the message loop whose window       *)
(* procedure is event_window_proc, and tears everything down.              *)
(***************************************************************************)
EXTENDS Integers, Sequences, FiniteSets, TLC

(***************************************************************************)
(* Bounds of the model.                                                    *)
(***************************************************************************)
\* Number of OS messages the window procedure processes in one behaviour of
\* the message-loop specification (ProcSpec); ThrottleSpec allows one more.
MaxMsgs == 2
\* The same, in one behaviour of the whole life cycle (Spec).
MaxLifeMsgs == 1
\* Number of calls of EventWindow::new in one behaviour.
MaxNewCalls == 2
\* Number of explicit calls of EventWindow::destroy in one behaviour.
MaxDestroyCalls == 2
\* First reading of the millisecond clock (ms since the epoch is far above
\* the throttle interval; LAST_MOUSE_EVENT_TIME starts at 0).
ClockStart == 50

(***************************************************************************)
(* Program constants (Win32 values of the imported names).                 *)
(***************************************************************************)
WM_SETTINGCHANGE == 26
WM_DISPLAYCHANGE == 126
WM_INPUT == 255
WM_DEVICECHANGE == 537
\* A message kind the window procedure has no arm for (WM_TIMER).
WM_TIMER == 275
SPI_ICONVERTICALSPACING == 24
SPI_SETWORKAREA == 47
DBT_DEVNODES_CHANGED == 7
RIM_TYPEMOUSE == 0
RIM_TYPEKEYBOARD == 1
RI_MOUSE_LEFT_BUTTON_DOWN == 1
RI_MOUSE_LEFT_BUTTON_UP == 2
RI_MOUSE_RIGHT_BUTTON_DOWN == 4
RI_MOUSE_RIGHT_BUTTON_UP == 8
MOUSE_MOVE_RELATIVE == 0
MOUSE_MOVE_ABSOLUTE == 1
\* Minimum number of milliseconds between two MouseMove emissions.
THROTTLE_MS == 50
\* size_of::<RAWINPUT>() on a 64-bit target.
RAWINPUT_SIZE == 48
U16 == 65536
\* u32::MAX, written as the same 32 bits read signed.
U32_MAX == -1

(***************************************************************************)
(* Integer helpers.                                                        *)
(***************************************************************************)
RECURSIVE BitAnd(_, _)
BitAnd(a, b) ==
  IF a = 0 \/ b = 0 THEN 0
  ELSE (IF a % 2 = 1 /\ b % 2 = 1 THEN 1 ELSE 0) + 2 * BitAnd(a \div 2, b \div 2)

\* `x as u16`.
AsU16(x) == x % U16
\* `wparam.0 as u32`: wparam is a 64-bit usize, kept as its two 32-bit
\* halves; the cast keeps the low half.
AsU32(wparam) == wparam.lo

\* fn has_flags(short: u16, mask: u32) -> bool
has_flags(short, mask) == BitAnd(short, AsU16(mask)) = AsU16(mask)

(***************************************************************************)
(* Inputs.                                                                 *)
(***************************************************************************)
Senders == {"tx1", "tx2"}
OsResults == {"Ok", "Err"}
\* wparam is pointer sized (two 32-bit halves); the handler reads
\* `wparam.0 as u32`.
WParam(hi, lo) == [hi |-> hi, lo |-> lo]
WParams == {WParam(0, DBT_DEVNODES_CHANGED), WParam(0, SPI_ICONVERTICALSPACING),
            WParam(0, SPI_SETWORKAREA), WParam(0, SPI_SETWORKAREA + 1),
            WParam(1, SPI_SETWORKAREA)}
\* Clock advance between two dispatched messages (non-decreasing clock).
TickSteps == {THROTTLE_MS - 1, THROTTLE_MS}
\* What GetRawInputData hands back: the returned size, the size written to
\* raw_input_size, and the record (header.dwType, usFlags, usButtonFlags and
\* lLast, the displacement lLastX / lLastY the record reports: 0 when the
\* mouse did not move; the handler never reads it).
Raw(res_size, raw_input_size, dwType, usFlags, usButtonFlags, lLast) ==
  [res_size |-> res_size, raw_input_size |-> raw_input_size, dwType |-> dwType,
   usFlags |-> usFlags, usButtonFlags |-> usButtonFlags, lLast |-> lLast]
\* A record of a mouse that moved.
MouseRecord(usFlags, usButtonFlags) ==
  Raw(RAWINPUT_SIZE, RAWINPUT_SIZE, RIM_TYPEMOUSE, usFlags, usButtonFlags, 1)
\* A record of a button transition of a mouse at rest.
ButtonRecord(usButtonFlags) ==
  Raw(RAWINPUT_SIZE, RAWINPUT_SIZE, RIM_TYPEMOUSE, MOUSE_MOVE_RELATIVE,
      usButtonFlags, 0)
NoRaw == Raw(0, 0, 0, 0, 0, 0)
RawInputs ==
  { MouseRecord(MOUSE_MOVE_RELATIVE, b) : b \in {0, RI_MOUSE_LEFT_BUTTON_DOWN} }
  \cup
  { ButtonRecord(b) :
      b \in {RI_MOUSE_LEFT_BUTTON_DOWN, RI_MOUSE_LEFT_BUTTON_UP,
             RI_MOUSE_RIGHT_BUTTON_DOWN, RI_MOUSE_RIGHT_BUTTON_UP} }
  \cup
  { MouseRecord(f, b) : f \in {MOUSE_MOVE_ABSOLUTE, 2},
                        b \in {0, RI_MOUSE_LEFT_BUTTON_DOWN} }
  \cup
  { Raw(0, RAWINPUT_SIZE, RIM_TYPEMOUSE, 0, RI_MOUSE_LEFT_BUTTON_DOWN, 0),
    Raw(RAWINPUT_SIZE, U32_MAX, RIM_TYPEMOUSE, 0, RI_MOUSE_LEFT_BUTTON_DOWN, 0),
    Raw(RAWINPUT_SIZE, RAWINPUT_SIZE, RIM_TYPEKEYBOARD, 0, 0, 0) }
\* The messages the OS delivers to the window: the message kind, its wparam,
\* and for WM_INPUT the record behind lparam and what GetCursorPos answers.
OsMsg(message, wparam, raw, cursor) ==
  [message |-> message, wparam |-> wparam, raw |-> raw, cursor |-> cursor]
OsMessages ==
  { OsMsg(m, w, NoRaw, "Ok") :
      m \in {WM_DISPLAYCHANGE, WM_SETTINGCHANGE, WM_DEVICECHANGE}, w \in WParams }
  \cup { OsMsg(WM_INPUT, WParam(0, 0), raw, c) : raw \in RawInputs, c \in OsResults }
  \cup { OsMsg(WM_TIMER, WParam(0, 0), NoRaw, "Ok") }
\* The messages delivered in the life-cycle specification: one of each kind.
LifeMessages ==
  { OsMsg(WM_DISPLAYCHANGE, WParam(0, 0), NoRaw, "Ok"),
    OsMsg(WM_INPUT, WParam(0, 0),
          MouseRecord(MOUSE_MOVE_RELATIVE, RI_MOUSE_LEFT_BUTTON_DOWN), "Ok"),
    OsMsg(WM_INPUT, WParam(0, 0),
          MouseRecord(MOUSE_MOVE_RELATIVE, RI_MOUSE_LEFT_BUTTON_DOWN), "Err"),
    OsMsg(WM_TIMER, WParam(0, 0), NoRaw, "Ok") }

VARIABLES
  \* process-wide statics
  PLATFORM_EVENT_TX,        \* "unset" or the installed sender
  ENABLE_MOUSE_EVENTS,
  IS_L_MOUSE_DOWN,
  IS_R_MOUSE_DOWN,
  LAST_MOUSE_EVENT_TIME,
  \* the EventWindow owned by the control thread
  ew,                       \* "absent", "live", "dropped"
  window_thread,            \* Option<JoinHandle>: "None" or "Some"
  \* the window thread
  tpc,                      \* its position
  tresult,                  \* its terminal result
  kbStarted, weStarted, windowExists,
  rawRegistered,            \* RegisterRawInputDevices succeeded
  quitPending,              \* WM_QUIT is in the thread's message queue
  \* the control thread
  cpc,                      \* "idle", "kill", "join"
  caller,                   \* who runs destroy: "explicit" or "drop"
  \* the event channel
  channel, rxAlive,
  \* the clock and the message budget
  now, nProcessed,
  \* observations
  last,                     \* the last call of the window procedure
  physL, physR, missed,     \* buttons as notified by the OS
  newRets,                  \* what each call of new returned, and the state
                            \* of the first EventWindow when it was called
  destroyRets,              \* what each call of destroy returned
  destroyAt,                \* window thread position when destroy was first called
  quitPosts, joins, spawned, errLogged,
  requested                 \* the flag value given to the latest new or update

statics == <<PLATFORM_EVENT_TX, ENABLE_MOUSE_EVENTS, IS_L_MOUSE_DOWN,
             IS_R_MOUSE_DOWN, LAST_MOUSE_EVENT_TIME>>
mouseFields == <<ENABLE_MOUSE_EVENTS, IS_L_MOUSE_DOWN, IS_R_MOUSE_DOWN,
                 LAST_MOUSE_EVENT_TIME>>
instance == <<ew, window_thread>>
thread == <<tpc, tresult, kbStarted, weStarted, windowExists, rawRegistered>>
control == <<cpc, caller>>
procObs == <<now, nProcessed, last, physL, physR, missed>>
ctlObs == <<newRets, destroyRets, destroyAt, quitPosts, joins, spawned, errLogged,
            requested>>
vars == <<statics, instance, thread, quitPending, control, channel, rxAlive,
          procObs, ctlObs>>

NoCall == [message |-> 0, wparam |-> [hi |-> 0, lo |-> 0], ret |-> "none", res |-> "none",
           attempted |-> FALSE, sent |-> FALSE, enabled |-> FALSE,
           throttled |-> FALSE, motion |-> FALSE, buttonOnly |-> FALSE]

Init ==
  /\ PLATFORM_EVENT_TX = "unset"
  /\ ENABLE_MOUSE_EVENTS = FALSE
  /\ IS_L_MOUSE_DOWN = FALSE
  /\ IS_R_MOUSE_DOWN = FALSE
  /\ LAST_MOUSE_EVENT_TIME = 0
  /\ ew = "absent"
  /\ window_thread = "None"
  /\ tpc = "none"
  /\ tresult = "none"
  /\ kbStarted = FALSE
  /\ weStarted = FALSE
  /\ windowExists = FALSE
  /\ rawRegistered = FALSE
  /\ quitPending = FALSE
  /\ cpc = "idle"
  /\ caller = "explicit"
  /\ channel = <<>>
  /\ rxAlive = TRUE
  /\ now = ClockStart
  /\ nProcessed = 0
  /\ last = NoCall
  /\ physL = FALSE
  /\ physR = FALSE
  /\ missed = FALSE
  /\ newRets = <<>>
  /\ destroyRets = <<>>
  /\ destroyAt = "none"
  /\ quitPosts = 0
  /\ joins = 0
  /\ spawned = 0
  /\ errLogged = FALSE
  /\ requested = "none"

(***************************************************************************)
(* The window procedure and its handlers, as functions of the statics, the *)
(* message and what the OS answers.  Each returns what it did:             *)
(*   res       the handler's anyhow::Result ("none": no handler ran)       *)
(*   attempted whether event_tx.send was called                            *)
(*   ev        the events put on the channel (none when the send fails)    *)
(*   l, r, t   the values of IS_L_MOUSE_DOWN, IS_R_MOUSE_DOWN and          *)
(*             LAST_MOUSE_EVENT_TIME afterwards                            *)
(***************************************************************************)
Outcome(res, attempted, ev, l, r, t, throttled) ==
  [res |-> res, attempted |-> attempted, ev |-> ev, l |-> l, r |-> r, t |-> t,
   throttled |-> throttled]

\* event_tx.send(event): fails when the receiver is gone.
send_result == IF rxAlive THEN "Ok" ELSE "Err"

\* Faulty variant of should_emit_event: the WM_DEVICECHANGE arm is missing, so every
\* device change falls into the catch-all arm.
should_emit_event_no_device_arm(message, wparam) ==
  CASE message = WM_SETTINGCHANGE ->
         \/ AsU32(wparam) = SPI_SETWORKAREA
         \/ AsU32(wparam) = SPI_ICONVERTICALSPACING
    [] OTHER -> TRUE

should_emit_event(message, wparam) ==
  CASE message = WM_SETTINGCHANGE ->
         \/ AsU32(wparam) = SPI_SETWORKAREA
         \/ AsU32(wparam) = SPI_ICONVERTICALSPACING
    [] message = WM_DEVICECHANGE -> AsU32(wparam) = DBT_DEVNODES_CHANGED
    [] OTHER -> TRUE

\* Faulty variant of handle_display_change_msg: the event is sent a second time.
handle_display_change_msg_twice(message, wparam) ==
  IF should_emit_event(message, wparam)
  THEN Outcome(send_result, TRUE,
               IF send_result = "Ok"
               THEN <<[kind |-> "DisplaySettingsChanged", is_mouse_down |-> FALSE],
                      [kind |-> "DisplaySettingsChanged", is_mouse_down |-> FALSE]>>
               ELSE <<>>,
               IS_L_MOUSE_DOWN, IS_R_MOUSE_DOWN, LAST_MOUSE_EVENT_TIME, FALSE)
  ELSE Outcome("Ok", FALSE, <<>>,
               IS_L_MOUSE_DOWN, IS_R_MOUSE_DOWN, LAST_MOUSE_EVENT_TIME, FALSE)

handle_display_change_msg(message, wparam) ==
  IF should_emit_event(message, wparam)
  THEN Outcome(send_result, TRUE,
               IF send_result = "Ok"
               THEN <<[kind |-> "DisplaySettingsChanged", is_mouse_down |-> FALSE]>>
               ELSE <<>>,
               IS_L_MOUSE_DOWN, IS_R_MOUSE_DOWN, LAST_MOUSE_EVENT_TIME, FALSE)
  ELSE Outcome("Ok", FALSE, <<>>,
               IS_L_MOUSE_DOWN, IS_R_MOUSE_DOWN, LAST_MOUSE_EVENT_TIME, FALSE)

\* Faulty variant of is_throttled: the interval is one millisecond short.
is_throttled_short(event_time, last_event_time) ==
  event_time - last_event_time < THROTTLE_MS - 1

\* The throttle test of handle_input_msg (u64 subtraction; the clock never
\* runs behind the last emission).
is_throttled(event_time, last_event_time) ==
  event_time - last_event_time < THROTTLE_MS

\* "Ignore if data is invalid or not a mouse event."
is_ignored(raw) ==
  \/ raw.res_size = 0
  \/ raw.raw_input_size = U32_MAX
  \/ raw.dwType # RIM_TYPEMOUSE

\* The button flag after the down and the up test of one button.
button_after(flag, button_flags, down_mask, up_mask) ==
  LET afterDown == IF has_flags(button_flags, down_mask) THEN TRUE ELSE flag
  IN IF has_flags(button_flags, up_mask) THEN FALSE ELSE afterDown

\* "Emit even if a mouse move has occured."
has_moved(state_flags) ==
  \/ has_flags(state_flags, MOUSE_MOVE_RELATIVE)
  \/ has_flags(state_flags, MOUSE_MOVE_ABSOLUTE)

\* Faulty variant of handle_input_msg: the button transitions are decoded before
\* the throttle test.
handle_input_msg_decoding_first(raw, event_time, cursor) ==
  LET l == button_after(IS_L_MOUSE_DOWN, raw.usButtonFlags,
                        RI_MOUSE_LEFT_BUTTON_DOWN, RI_MOUSE_LEFT_BUTTON_UP)
      r == button_after(IS_R_MOUSE_DOWN, raw.usButtonFlags,
                        RI_MOUSE_RIGHT_BUTTON_DOWN, RI_MOUSE_RIGHT_BUTTON_UP)
  IN IF is_ignored(raw)
     THEN Outcome("Ok", FALSE, <<>>, IS_L_MOUSE_DOWN, IS_R_MOUSE_DOWN,
                  LAST_MOUSE_EVENT_TIME,
                  is_throttled(event_time, LAST_MOUSE_EVENT_TIME))
     ELSE IF is_throttled(event_time, LAST_MOUSE_EVENT_TIME)
     THEN Outcome("Ok", FALSE, <<>>, l, r, LAST_MOUSE_EVENT_TIME, TRUE)
     ELSE IF ~has_moved(raw.usFlags)
     THEN Outcome("Ok", FALSE, <<>>, l, r, LAST_MOUSE_EVENT_TIME, FALSE)
     ELSE IF cursor = "Err"
     THEN Outcome("Err", FALSE, <<>>, l, r, LAST_MOUSE_EVENT_TIME, FALSE)
     ELSE IF send_result = "Err"
     THEN Outcome("Err", TRUE, <<>>, l, r, LAST_MOUSE_EVENT_TIME, FALSE)
     ELSE Outcome("Ok", TRUE,
                  <<[kind |-> "MouseMove", is_mouse_down |-> (l \/ r)]>>,
                  l, r, event_time, FALSE)

\* Faulty variant of handle_input_msg: LAST_MOUSE_EVENT_TIME is stored before the
\* cursor query and the send, so it moves even when they fail.
handle_input_msg_stamping_first(raw, event_time, cursor) ==
  IF is_throttled(event_time, LAST_MOUSE_EVENT_TIME)
  THEN Outcome("Ok", FALSE, <<>>,
               IS_L_MOUSE_DOWN, IS_R_MOUSE_DOWN, LAST_MOUSE_EVENT_TIME, TRUE)
  ELSE IF is_ignored(raw)
  THEN Outcome("Ok", FALSE, <<>>,
               IS_L_MOUSE_DOWN, IS_R_MOUSE_DOWN, LAST_MOUSE_EVENT_TIME, FALSE)
  ELSE
    LET l == button_after(IS_L_MOUSE_DOWN, raw.usButtonFlags,
                          RI_MOUSE_LEFT_BUTTON_DOWN, RI_MOUSE_LEFT_BUTTON_UP)
        r == button_after(IS_R_MOUSE_DOWN, raw.usButtonFlags,
                          RI_MOUSE_RIGHT_BUTTON_DOWN, RI_MOUSE_RIGHT_BUTTON_UP)
    IN IF ~has_moved(raw.usFlags)
       THEN Outcome("Ok", FALSE, <<>>, l, r, LAST_MOUSE_EVENT_TIME, FALSE)
       ELSE IF cursor = "Err"
       THEN Outcome("Err", FALSE, <<>>, l, r, event_time, FALSE)
       ELSE IF send_result = "Err"
       THEN Outcome("Err", TRUE, <<>>, l, r, event_time, FALSE)
       ELSE Outcome("Ok", TRUE,
                    <<[kind |-> "MouseMove", is_mouse_down |-> (l \/ r)]>>,
                    l, r, event_time, FALSE)

handle_input_msg(raw, event_time, cursor) ==
  IF is_throttled(event_time, LAST_MOUSE_EVENT_TIME)
  THEN Outcome("Ok", FALSE, <<>>,
               IS_L_MOUSE_DOWN, IS_R_MOUSE_DOWN, LAST_MOUSE_EVENT_TIME, TRUE)
  ELSE IF is_ignored(raw)
  THEN Outcome("Ok", FALSE, <<>>,
               IS_L_MOUSE_DOWN, IS_R_MOUSE_DOWN, LAST_MOUSE_EVENT_TIME, FALSE)
  ELSE
    LET l == button_after(IS_L_MOUSE_DOWN, raw.usButtonFlags,
                          RI_MOUSE_LEFT_BUTTON_DOWN, RI_MOUSE_LEFT_BUTTON_UP)
        r == button_after(IS_R_MOUSE_DOWN, raw.usButtonFlags,
                          RI_MOUSE_RIGHT_BUTTON_DOWN, RI_MOUSE_RIGHT_BUTTON_UP)
    IN IF ~has_moved(raw.usFlags)
       THEN Outcome("Ok", FALSE, <<>>, l, r, LAST_MOUSE_EVENT_TIME, FALSE)
       ELSE IF cursor = "Err"
       THEN Outcome("Err", FALSE, <<>>, l, r, LAST_MOUSE_EVENT_TIME, FALSE)
       ELSE IF send_result = "Err"
       THEN Outcome("Err", TRUE, <<>>, l, r, LAST_MOUSE_EVENT_TIME, FALSE)
       ELSE Outcome("Ok", TRUE,
                    <<[kind |-> "MouseMove", is_mouse_down |-> (l \/ r)]>>,
                    l, r, event_time, FALSE)

\* Faulty variant of event_window_proc: the WM_INPUT arm has lost its guard on
\* ENABLE_MOUSE_EVENTS.
event_window_proc_unguarded(message, wparam, raw, event_time, cursor) ==
  LET untouched == Outcome("none", FALSE, <<>>, IS_L_MOUSE_DOWN, IS_R_MOUSE_DOWN,
                           LAST_MOUSE_EVENT_TIME, FALSE)
  IN IF PLATFORM_EVENT_TX # "unset"
     THEN IF message \in {WM_DISPLAYCHANGE, WM_SETTINGCHANGE, WM_DEVICECHANGE}
          THEN [ret |-> "0", out |-> handle_display_change_msg(message, wparam)]
          ELSE IF message = WM_INPUT
          THEN [ret |-> "0", out |-> handle_input_msg(raw, event_time, cursor)]
          ELSE [ret |-> "DefWindowProcW", out |-> untouched]
     ELSE [ret |-> "0", out |-> untouched]

\* Faulty variant of event_window_proc: the guard on ENABLE_MOUSE_EVENTS sits on the
\* display arm as well.
event_window_proc_display_guarded(message, wparam, raw, event_time, cursor) ==
  LET untouched == Outcome("none", FALSE, <<>>, IS_L_MOUSE_DOWN, IS_R_MOUSE_DOWN,
                           LAST_MOUSE_EVENT_TIME, FALSE)
  IN IF PLATFORM_EVENT_TX # "unset"
     THEN IF /\ message \in {WM_DISPLAYCHANGE, WM_SETTINGCHANGE, WM_DEVICECHANGE}
             /\ ENABLE_MOUSE_EVENTS
          THEN [ret |-> "0", out |-> handle_display_change_msg(message, wparam)]
          ELSE IF message = WM_INPUT /\ ENABLE_MOUSE_EVENTS
          THEN [ret |-> "0", out |-> handle_input_msg(raw, event_time, cursor)]
          ELSE [ret |-> "DefWindowProcW", out |-> untouched]
     ELSE [ret |-> "0", out |-> untouched]

\* Faulty variant of event_window_proc: the test of the sender is missing from the
\* catch-all arm, so unhandled messages reach DefWindowProcW while the sender
\* is unset.
event_window_proc_unset_forwarded(message, wparam, raw, event_time, cursor) ==
  LET untouched == Outcome("none", FALSE, <<>>, IS_L_MOUSE_DOWN, IS_R_MOUSE_DOWN,
                           LAST_MOUSE_EVENT_TIME, FALSE)
  IN IF /\ PLATFORM_EVENT_TX # "unset"
        /\ message \in {WM_DISPLAYCHANGE, WM_SETTINGCHANGE, WM_DEVICECHANGE}
     THEN [ret |-> "0", out |-> handle_display_change_msg(message, wparam)]
     ELSE IF PLATFORM_EVENT_TX # "unset" /\ message = WM_INPUT /\ ENABLE_MOUSE_EVENTS
     THEN [ret |-> "0", out |-> handle_input_msg(raw, event_time, cursor)]
     ELSE IF message \in {WM_DISPLAYCHANGE, WM_SETTINGCHANGE, WM_DEVICECHANGE}
     THEN [ret |-> "0", out |-> untouched]
     ELSE [ret |-> "DefWindowProcW", out |-> untouched]

\* Faulty variant of event_window_proc: when a handler fails the message is passed
\* on to DefWindowProcW instead of being reported as handled.
event_window_proc_failing_forwarded(message, wparam, raw, event_time, cursor) ==
  LET untouched == Outcome("none", FALSE, <<>>, IS_L_MOUSE_DOWN, IS_R_MOUSE_DOWN,
                           LAST_MOUSE_EVENT_TIME, FALSE)
      handled(out) == [ret |-> IF out.res = "Err" THEN "DefWindowProcW" ELSE "0",
                       out |-> out]
  IN IF PLATFORM_EVENT_TX # "unset"
     THEN IF message \in {WM_DISPLAYCHANGE, WM_SETTINGCHANGE, WM_DEVICECHANGE}
          THEN handled(handle_display_change_msg(message, wparam))
          ELSE IF message = WM_INPUT /\ ENABLE_MOUSE_EVENTS
          THEN handled(handle_input_msg(raw, event_time, cursor))
          ELSE [ret |-> "DefWindowProcW", out |-> untouched]
     ELSE [ret |-> "0", out |-> untouched]

\* event_window_proc: ret is "0" (LRESULT(0)) or "DefWindowProcW".
event_window_proc(message, wparam, raw, event_time, cursor) ==
  LET untouched == Outcome("none", FALSE, <<>>, IS_L_MOUSE_DOWN, IS_R_MOUSE_DOWN,
                           LAST_MOUSE_EVENT_TIME, FALSE)
  IN IF PLATFORM_EVENT_TX # "unset"
     THEN IF message \in {WM_DISPLAYCHANGE, WM_SETTINGCHANGE, WM_DEVICECHANGE}
          THEN [ret |-> "0", out |-> handle_display_change_msg(message, wparam)]
          ELSE IF message = WM_INPUT /\ ENABLE_MOUSE_EVENTS
          THEN [ret |-> "0", out |-> handle_input_msg(raw, event_time, cursor)]
          ELSE [ret |-> "DefWindowProcW", out |-> untouched]
     ELSE [ret |-> "0", out |-> untouched]

\* The buttons as the OS notified them: every mouse record delivered to the
\* window procedure, whether or not the procedure decoded it.
notified_after(flag, message, raw, down_mask, up_mask) ==
  IF message = WM_INPUT /\ ~is_ignored(raw)
  THEN button_after(flag, raw.usButtonFlags, down_mask, up_mask)
  ELSE flag

\* One call of the window procedure at clock reading event_time: what it
\* does to the statics and the channel, and what is observed of it.
ProcCall(message, wparam, raw, event_time, cursor, budget) ==
  /\ nProcessed < budget
  /\ \E call \in {event_window_proc(message, wparam, raw, event_time, cursor)},
        pl \in {notified_after(physL, message, raw,
                               RI_MOUSE_LEFT_BUTTON_DOWN, RI_MOUSE_LEFT_BUTTON_UP)},
        pr \in {notified_after(physR, message, raw,
                               RI_MOUSE_RIGHT_BUTTON_DOWN, RI_MOUSE_RIGHT_BUTTON_UP)},
        lost \in {\/ missed
                  \/ /\ message = WM_INPUT
                     /\ ~is_ignored(raw)
                     /\ raw.usButtonFlags # 0
                     /\ ~ENABLE_MOUSE_EVENTS} :
       /\ IS_L_MOUSE_DOWN' = call.out.l
       /\ IS_R_MOUSE_DOWN' = call.out.r
       /\ LAST_MOUSE_EVENT_TIME' = call.out.t
       /\ channel' = channel \o
            [i \in 1..Len(call.out.ev) |->
               [kind |-> call.out.ev[i].kind,
                is_mouse_down |-> call.out.ev[i].is_mouse_down,
                time |-> event_time, notified |-> (pl \/ pr),
                sync |-> ~lost, seq |-> nProcessed + 1]]
       /\ last' = [message |-> message, wparam |-> wparam, ret |-> call.ret,
                   res |-> call.out.res, attempted |-> call.out.attempted,
                   sent |-> Len(call.out.ev) > 0, enabled |-> ENABLE_MOUSE_EVENTS,
                   throttled |-> call.out.throttled,
                   \* the record is a mouse record that passes the movement test
                   motion |-> /\ message = WM_INPUT
                              /\ ~is_ignored(raw)
                              /\ has_moved(raw.usFlags),
                   \* the record is a button transition of a mouse at rest
                   buttonOnly |-> /\ message = WM_INPUT
                                  /\ ~is_ignored(raw)
                                  /\ raw.usButtonFlags # 0
                                  /\ raw.lLast = 0
                                  /\ raw.usFlags = MOUSE_MOVE_RELATIVE]
       /\ physL' = pl
       /\ physR' = pr
       /\ missed' = lost
  /\ now' = event_time
  /\ nProcessed' = nProcessed + 1
  /\ UNCHANGED <<PLATFORM_EVENT_TX, ENABLE_MOUSE_EVENTS, instance, thread,
                 quitPending, control, rxAlive, ctlObs>>

\* One message retrieved by the message loop (Platform::run_message_loop) and
\* dispatched to the window procedure.
Dispatch(message, wparam, raw, event_time, cursor, budget) ==
  /\ tpc = "loop"
  /\ ProcCall(message, wparam, raw, event_time, cursor, budget)

\* The window procedure is public: a call of it that arrives while no sender
\* is installed, before any EventWindow exists.
EarlyCall(message, wparam, raw, event_time, cursor, budget) ==
  /\ PLATFORM_EVENT_TX = "unset"
  /\ ProcCall(message, wparam, raw, event_time, cursor, budget)

\* The receiving half of the channel is dropped by the consumer.
DropReceiver ==
  /\ rxAlive
  /\ rxAlive' = FALSE
  /\ UNCHANGED <<statics, instance, thread, quitPending, control, channel,
                 procObs, ctlObs>>

(***************************************************************************)
(* Collaborators whose code lies outside this file.                        *)
(***************************************************************************)
\* KeyboardHook::new and WinEventHook::new only build the hook objects.
hook_new_results == {"Ok"}
\* KeyboardHook / WinEventHook start and stop, Platform::create_message_window.
hook_results == {"Ok", "Err"}
\* The window thread owns a message queue once its window exists and until
\* it exits; while it starts up the queue may or may not exist yet.
thread_has_queue(pos) ==
  CASE pos \in {"register", "loop"} -> {TRUE}
    [] pos \in {"kb_start", "we_start", "create_window"} -> {TRUE, FALSE}
    [] OTHER -> {FALSE}
\* Platform::kill_message_loop posts the quit message to the thread's queue;
\* posting fails when the thread has no queue.
kill_message_loop_results(pos) ==
  {IF q THEN "Ok" ELSE "ErrPostQuit" : q \in thread_has_queue(pos)}

(***************************************************************************)
(* EventWindow::new                                                        *)
(***************************************************************************)
RecordNew(ret) ==
  /\ newRets' = Append(newRets, [ret |-> ret, at |-> ew])
  /\ UNCHANGED <<destroyRets, destroyAt, quitPosts, joins, errLogged>>

\* Faulty variant of New: the sender is stored without the OnceLock test, so a later
\* call replaces it and spawns another window thread.
NewReplacing(event_tx, enable_mouse_events) ==
  /\ cpc = "idle"
  /\ Len(newRets) < MaxNewCalls
  /\ PLATFORM_EVENT_TX' = event_tx
  /\ ENABLE_MOUSE_EVENTS' = enable_mouse_events
  /\ requested' = enable_mouse_events
  /\ tpc' = "kb_start"
  /\ spawned' = spawned + 1
  /\ ew' = "live"
  /\ window_thread' = "Some"
  /\ RecordNew("Ok")
  /\ UNCHANGED <<IS_L_MOUSE_DOWN, IS_R_MOUSE_DOWN, LAST_MOUSE_EVENT_TIME,
                 tresult, kbStarted, weStarted, windowExists,
                 rawRegistered>>
  /\ UNCHANGED <<quitPending, control, channel, rxAlive, procObs>>

New(event_tx, enable_mouse_events) ==
  /\ cpc = "idle"
  /\ Len(newRets) < MaxNewCalls
  /\ \E kh \in hook_new_results, wh \in hook_new_results :
       IF kh # "Ok" \/ wh # "Ok"
       THEN /\ RecordNew("ErrHook")
            /\ UNCHANGED <<statics, instance, thread, spawned, requested>>
       ELSE IF PLATFORM_EVENT_TX # "unset"
       THEN \* OnceLock::set fails: "Platform event sender already set."
            /\ RecordNew("ErrAlreadySet")
            /\ UNCHANGED <<statics, instance, thread, spawned, requested>>
       ELSE /\ PLATFORM_EVENT_TX' = event_tx
            /\ ENABLE_MOUSE_EVENTS' = enable_mouse_events
            /\ requested' = enable_mouse_events
            /\ tpc' = "kb_start"
            /\ spawned' = spawned + 1
            /\ ew' = "live"
            /\ window_thread' = "Some"
            /\ RecordNew("Ok")
            /\ UNCHANGED <<IS_L_MOUSE_DOWN, IS_R_MOUSE_DOWN, LAST_MOUSE_EVENT_TIME,
                           tresult, kbStarted, weStarted, windowExists,
                 rawRegistered>>
  /\ UNCHANGED <<quitPending, control, channel, rxAlive, procObs>>

(***************************************************************************)
(* EventWindow::update                                                     *)
(***************************************************************************)
\* Faulty variant of Update: the key bindings are passed on but the flag is not
\* stored.
UpdateNoStore(enable_mouse_events) ==
  /\ ew = "live"
  /\ cpc = "idle"
  /\ requested' = enable_mouse_events
  /\ UNCHANGED <<statics, instance, thread, quitPending, control,
                 channel, rxAlive, procObs>>
  /\ UNCHANGED <<newRets, destroyRets, destroyAt, quitPosts, joins, spawned,
                 errLogged>>

Update(enable_mouse_events) ==
  /\ ew = "live"
  /\ cpc = "idle"
  /\ ENABLE_MOUSE_EVENTS' = enable_mouse_events
  /\ requested' = enable_mouse_events
  /\ UNCHANGED <<PLATFORM_EVENT_TX, IS_L_MOUSE_DOWN, IS_R_MOUSE_DOWN,
                 LAST_MOUSE_EVENT_TIME, instance, thread, quitPending, control,
                 channel, rxAlive, procObs>>
  /\ UNCHANGED <<newRets, destroyRets, destroyAt, quitPosts, joins, spawned,
                 errLogged>>

(***************************************************************************)
(* The window thread (the closure given to thread::spawn).                 *)
(***************************************************************************)
ThreadFrame ==
  UNCHANGED <<statics, instance, control, channel, rxAlive, procObs, ctlObs>>

\* The closure returns: early with an error, or Ok(()) at its end.
ThreadExit(result) ==
  /\ tpc' = "exited"
  /\ tresult' = result

\* keyboard_hook_clone.start()?
ThreadKbStart ==
  /\ tpc = "kb_start"
  /\ \E r \in hook_results :
       IF r = "Ok"
       THEN /\ kbStarted' = TRUE
            /\ tpc' = "we_start"
            /\ UNCHANGED tresult
       ELSE /\ ThreadExit("ErrKbStart")
            /\ UNCHANGED kbStarted
  /\ UNCHANGED <<weStarted, windowExists, rawRegistered, quitPending>>
  /\ ThreadFrame

\* win_event_hook.start()?
ThreadWeStart ==
  /\ tpc = "we_start"
  /\ \E r \in hook_results :
       IF r = "Ok"
       THEN /\ weStarted' = TRUE
            /\ tpc' = "create_window"
            /\ UNCHANGED tresult
       ELSE /\ ThreadExit("ErrWeStart")
            /\ UNCHANGED weStarted
  /\ UNCHANGED <<kbStarted, windowExists, rawRegistered, quitPending>>
  /\ ThreadFrame

\* Platform::create_message_window(Some(event_window_proc))?
ThreadCreateWindow ==
  /\ tpc = "create_window"
  /\ \E r \in hook_results :
       IF r = "Ok"
       THEN /\ windowExists' = TRUE
            /\ tpc' = "register"
            /\ UNCHANGED tresult
       ELSE /\ ThreadExit("ErrCreateWindow")
            /\ UNCHANGED windowExists
  /\ UNCHANGED <<kbStarted, weStarted, rawRegistered, quitPending>>
  /\ ThreadFrame

\* Faulty variant of ThreadRegister: a rejected registration is not propagated and
\* the message loop is entered all the same.
ThreadRegisterUnchecked ==
  /\ tpc = "register"
  /\ \E r \in OsResults :
       IF r = "Ok"
       THEN rawRegistered' = TRUE
       ELSE UNCHANGED rawRegistered
  /\ tpc' = "loop"
  /\ UNCHANGED <<tresult, kbStarted, weStarted, windowExists, quitPending>>
  /\ ThreadFrame

\* RegisterRawInputDevices(..)?, then Platform::run_message_loop() is entered.
ThreadRegister ==
  /\ tpc = "register"
  /\ \E r \in OsResults :
       IF r = "Ok"
       THEN /\ rawRegistered' = TRUE
            /\ tpc' = "loop"
            /\ UNCHANGED tresult
       ELSE /\ ThreadExit("ErrRegister")
            /\ UNCHANGED rawRegistered
  /\ UNCHANGED <<kbStarted, weStarted, windowExists, quitPending>>
  /\ ThreadFrame

\* The message loop retrieves the quit message and returns.
ThreadRetrieveQuit ==
  /\ tpc = "loop"
  /\ quitPending
  /\ quitPending' = FALSE
  /\ tpc' = "destroy_window"
  /\ UNCHANGED <<tresult, kbStarted, weStarted, windowExists,
                 rawRegistered>>
  /\ ThreadFrame

\* Faulty variant of ThreadDestroyWindow: the result of DestroyWindow is discarded
\* and the hooks are stopped all the same.
ThreadDestroyWindowUnchecked ==
  /\ tpc = "destroy_window"
  /\ \E r \in OsResults :
       IF r = "Ok"
       THEN windowExists' = FALSE
       ELSE UNCHANGED windowExists
  /\ tpc' = "kb_stop"
  /\ UNCHANGED <<tresult, kbStarted, weStarted, rawRegistered, quitPending>>
  /\ ThreadFrame

\* DestroyWindow(HWND(handle))?
ThreadDestroyWindow ==
  /\ tpc = "destroy_window"
  /\ \E r \in OsResults :
       IF r = "Ok"
       THEN /\ windowExists' = FALSE
            /\ tpc' = "kb_stop"
            /\ UNCHANGED tresult
       ELSE /\ ThreadExit("ErrDestroyWindow")
            /\ UNCHANGED windowExists
  /\ UNCHANGED <<kbStarted, weStarted, rawRegistered, quitPending>>
  /\ ThreadFrame

\* keyboard_hook_clone.stop()?
ThreadKbStop ==
  /\ tpc = "kb_stop"
  /\ \E r \in hook_results :
       IF r = "Ok"
       THEN /\ kbStarted' = FALSE
            /\ tpc' = "we_stop"
            /\ UNCHANGED tresult
       ELSE /\ ThreadExit("ErrKbStop")
            /\ UNCHANGED kbStarted
  /\ UNCHANGED <<weStarted, windowExists, rawRegistered, quitPending>>
  /\ ThreadFrame

\* win_event_hook.stop()?  and then Ok(())
ThreadWeStop ==
  /\ tpc = "we_stop"
  /\ \E r \in hook_results :
       IF r = "Ok"
       THEN /\ weStarted' = FALSE
            /\ ThreadExit("Ok")
       ELSE /\ ThreadExit("ErrWeStop")
            /\ UNCHANGED weStarted
  /\ UNCHANGED <<kbStarted, windowExists, rawRegistered, quitPending>>
  /\ ThreadFrame

\* A hook collaborator panics while it starts: the thread unwinds.
ThreadPanic ==
  /\ tpc \in {"kb_start", "we_start"}
  /\ ThreadExit("Panicked")
  /\ UNCHANGED <<kbStarted, weStarted, windowExists, rawRegistered, quitPending>>
  /\ ThreadFrame

(***************************************************************************)
(* EventWindow::destroy and Drop for EventWindow (control thread).         *)
(***************************************************************************)
\* Faulty variant of DestroyReturn: drop discards the result of destroy without
\* logging it.
DestroyReturnSilent(who, ret) ==
  /\ destroyRets' = Append(destroyRets, ret)
  /\ cpc' = "idle"
  /\ caller' = who
  /\ IF who = "drop"
     THEN /\ ew' = "dropped"
          /\ UNCHANGED errLogged
     ELSE UNCHANGED <<ew, errLogged>>

\* destroy returns ret to its caller; drop logs an error and ends the value.
DestroyReturn(who, ret) ==
  /\ destroyRets' = Append(destroyRets, ret)
  /\ cpc' = "idle"
  /\ caller' = who
  /\ IF who = "drop"
     THEN /\ ew' = "dropped"
          /\ errLogged' = (ret # "Ok")
     ELSE UNCHANGED <<ew, errLogged>>

\* Faulty variant of DestroyBegin: the handle is read without take(), so it is still
\* there at the next call.
DestroyBeginNoTake(who) ==
  /\ ew = "live"
  /\ cpc = "idle"
  /\ who = "explicit" => Len(destroyRets) < MaxDestroyCalls
  /\ IF window_thread = "Some"
     THEN /\ cpc' = "kill"
          /\ caller' = who
          /\ destroyAt' = tpc
          /\ UNCHANGED <<ew, window_thread, destroyRets, errLogged>>
     ELSE /\ DestroyReturn(who, "Ok")
          /\ UNCHANGED <<window_thread, destroyAt>>
  /\ UNCHANGED <<statics, thread, quitPending, channel, rxAlive, procObs,
                 newRets, quitPosts, joins, spawned, requested>>

\* self.window_thread.take()
DestroyBegin(who) ==
  /\ ew = "live"
  /\ cpc = "idle"
  /\ who = "explicit" => Len(destroyRets) < MaxDestroyCalls
  /\ IF window_thread = "Some"
     THEN /\ window_thread' = "None"
          /\ cpc' = "kill"
          /\ caller' = who
          /\ destroyAt' = tpc
          /\ UNCHANGED <<ew, destroyRets, errLogged>>
     ELSE /\ DestroyReturn(who, "Ok")
          /\ UNCHANGED <<window_thread, destroyAt>>
  /\ UNCHANGED <<statics, thread, quitPending, channel, rxAlive, procObs,
                 newRets, quitPosts, joins, spawned, requested>>

\* Faulty variant of DestroyKill: destroy goes on to join without the call of
\* kill_message_loop.
DestroyKillNoPost ==
  /\ cpc = "kill"
  /\ cpc' = "join"
  /\ UNCHANGED <<ew, caller, destroyRets, errLogged, quitPending, quitPosts>>
  /\ UNCHANGED <<statics, window_thread, thread, channel, rxAlive, procObs,
                 newRets, destroyAt, joins, spawned, requested>>

\* Platform::kill_message_loop(&window_thread)?
DestroyKill ==
  /\ cpc = "kill"
  /\ \E r \in kill_message_loop_results(tpc) :
       IF r = "Ok"
       THEN /\ quitPending' = TRUE
            /\ quitPosts' = quitPosts + 1
            /\ cpc' = "join"
            /\ UNCHANGED <<ew, caller, destroyRets, errLogged>>
       ELSE /\ DestroyReturn(caller, r)
            /\ UNCHANGED <<quitPending, quitPosts>>
  /\ UNCHANGED <<statics, window_thread, thread, channel, rxAlive, procObs,
                 newRets, destroyAt, joins, spawned, requested>>

\* window_thread.join().map_err(|_| anyhow!("Thread join failed."))??
join_result(terminal) ==
  IF terminal = "Panicked" THEN "ErrJoinFailed" ELSE terminal

DestroyJoin ==
  /\ cpc = "join"
  /\ tpc = "exited"
  /\ joins' = joins + 1
  /\ DestroyReturn(caller, join_result(tresult))
  /\ UNCHANGED <<statics, window_thread, thread, quitPending, channel, rxAlive,
                 procObs, newRets, destroyAt, quitPosts, spawned, requested>>

Next ==
  \/ \E tx \in Senders, b \in BOOLEAN : New(tx, b)
  \/ \E b \in BOOLEAN : Update(b)
  \/ ThreadKbStart
  \/ ThreadWeStart
  \/ ThreadCreateWindow
  \/ ThreadRegister
  \/ \E m \in LifeMessages :
       Dispatch(m.message, m.wparam, m.raw, now + THROTTLE_MS, m.cursor, MaxLifeMsgs)
  \/ ThreadRetrieveQuit
  \/ ThreadDestroyWindow
  \/ ThreadKbStop
  \/ ThreadWeStop
  \/ ThreadPanic
  \/ DestroyBegin("explicit")
  \/ DestroyBegin("drop")
  \/ DestroyKill
  \/ DestroyJoin
  \/ DropReceiver

Spec == Init /\ [][Next]_vars

(***************************************************************************)
(* The message loop on its own: the state after EventWindow::new returned  *)
(* Ok and the window thread reached run_message_loop, then any messages,   *)
(* any calls of update, and the consumer dropping the receiver.            *)
(***************************************************************************)
ProcInit ==
  /\ PLATFORM_EVENT_TX = "tx1"
  /\ ENABLE_MOUSE_EVENTS \in BOOLEAN
  /\ IS_L_MOUSE_DOWN = FALSE
  /\ IS_R_MOUSE_DOWN = FALSE
  /\ LAST_MOUSE_EVENT_TIME = 0
  /\ ew = "live"
  /\ window_thread = "Some"
  /\ tpc = "loop"
  /\ tresult = "none"
  /\ kbStarted = TRUE
  /\ weStarted = TRUE
  /\ windowExists = TRUE
  /\ rawRegistered = TRUE
  /\ quitPending = FALSE
  /\ cpc = "idle"
  /\ caller = "explicit"
  /\ channel = <<>>
  /\ rxAlive = TRUE
  /\ now = ClockStart
  /\ nProcessed = 0
  /\ last = NoCall
  /\ physL = FALSE
  /\ physR = FALSE
  /\ missed = FALSE
  /\ newRets = <<[ret |-> "Ok", at |-> "absent"]>>
  /\ destroyRets = <<>>
  /\ destroyAt = "none"
  /\ quitPosts = 0
  /\ joins = 0
  /\ spawned = 1
  /\ errLogged = FALSE
  /\ requested = ENABLE_MOUSE_EVENTS

ProcNext ==
  \/ \E m \in OsMessages, d \in TickSteps :
       Dispatch(m.message, m.wparam, m.raw, now + d, m.cursor, MaxMsgs)
  \/ \E b \in BOOLEAN : Update(b)
  \/ DropReceiver

ProcSpec == ProcInit /\ [][ProcNext]_vars

\* The same with one more message, enough for an emission, a throttled
\* message and a second emission.
ThrottleNext ==
  \/ \E m \in OsMessages, d \in TickSteps :
       Dispatch(m.message, m.wparam, m.raw, now + d, m.cursor, MaxMsgs + 1)
  \/ \E b \in BOOLEAN : Update(b)
  \/ DropReceiver

ThrottleSpec == ProcInit /\ [][ThrottleNext]_vars

\* The window procedure before initialization: from the state of the process
\* at its start, any messages handed to the procedure.
EarlyNext ==
  \E m \in OsMessages, d \in TickSteps :
    EarlyCall(m.message, m.wparam, m.raw, now + d, m.cursor, MaxMsgs)

EarlySpec == Init /\ [][EarlyNext]_vars

(***************************************************************************)
(* Properties.                                                             *)
(***************************************************************************)
NewReturned == Len(newRets') = Len(newRets) + 1

IsMouseMove(e) == e.kind = "MouseMove"
IsDisplayEvent(e) == e.kind = "DisplaySettingsChanged"
MouseMoves == SelectSeq(channel, IsMouseMove)
\* The step is one call of the window procedure.
Dispatched == nProcessed' = nProcessed + 1
DisplayClass == {WM_DISPLAYCHANGE, WM_SETTINGCHANGE, WM_DEVICECHANGE}

\* C2: under a non-decreasing millisecond clock, any two MouseMove events
\* emitted one after the other were emitted at least 50 ms apart.
C2_MouseMovesAtLeast50msApart ==
  \A i \in 1..Len(MouseMoves) :
    i > 1 => MouseMoves[i].time - MouseMoves[i - 1].time >= 50

\* Two MouseMove events were emitted, exactly 50 ms apart.
C2_Witness ==
  /\ Len(MouseMoves) = 2
  /\ MouseMoves[2].time - MouseMoves[1].time = THROTTLE_MS

\* C3: while no button transition was notified with mouse events disabled,
\* every emitted MouseMove carries is_mouse_down = TRUE when a button-down
\* was notified for a button and no button-up for it since, and FALSE when
\* for both buttons the last notified transition (if any) is an up.
C3_MouseDownFollowsNotifiedButtons ==
  \A i \in 1..Len(channel) :
    (IsMouseMove(channel[i]) /\ channel[i].sync)
      => channel[i].is_mouse_down = channel[i].notified

\* C4: with the mouse-enabled flag false, a WM_INPUT message puts nothing on
\* the channel, leaves the button flags and the last-emitted timestamp as
\* they are, and goes to the default window procedure.
C4_DisabledInputIsForwarded ==
  [][ (Dispatched /\ last'.message = WM_INPUT /\ ~ENABLE_MOUSE_EVENTS)
      => /\ channel' = channel
         /\ UNCHANGED <<IS_L_MOUSE_DOWN, IS_R_MOUSE_DOWN, LAST_MOUSE_EVENT_TIME>>
         /\ last'.ret = "DefWindowProcW"
         /\ last'.res = "none" ]_vars

\* A left-button-down record was delivered with the flag false, after the
\* throttle interval: it was forwarded and IS_L_MOUSE_DOWN stayed false.
C4_Witness ==
  /\ last.message = WM_INPUT
  /\ ~last.enabled
  /\ last.ret = "DefWindowProcW"
  /\ physL
  /\ ~IS_L_MOUSE_DOWN
  /\ channel = <<>>

\* The inputs for which the claim says DisplaySettingsChanged is emitted; the
\* discriminant is the 32-bit value the handler reads from wparam.
Recognized(message, wparam) ==
  \/ message = WM_DISPLAYCHANGE
  \/ /\ message = WM_SETTINGCHANGE
     /\ wparam.lo \in {SPI_SETWORKAREA, SPI_ICONVERTICALSPACING}
  \/ /\ message = WM_DEVICECHANGE
     /\ wparam.lo = DBT_DEVNODES_CHANGED

\* C5: the display-change handler sends DisplaySettingsChanged exactly for
\* WM_DISPLAYCHANGE, for WM_SETTINGCHANGE with discriminant SPI_SETWORKAREA
\* or SPI_ICONVERTICALSPACING, and for WM_DEVICECHANGE with discriminant
\* DBT_DEVNODES_CHANGED; for every other discriminant it sends nothing and
\* returns Ok.
C5_EmitsExactlyForRecognized ==
  last.message \in DisplayClass
    => /\ last.attempted <=> Recognized(last.message, last.wparam)
       /\ last.sent <=> (last.attempted /\ last.res = "Ok")
       /\ last.sent => /\ channel # <<>>
                       /\ IsDisplayEvent(channel[Len(channel)])
                       /\ channel[Len(channel)].seq = nProcessed
       /\ ~Recognized(last.message, last.wparam)
            => /\ last.res = "Ok"
               /\ \A i \in 1..Len(channel) : channel[i].seq # nProcessed

\* A recognized settings change emitted the event and the device change after
\* it, with the discriminant of the settings change, emitted nothing.
C5_Witness ==
  /\ nProcessed = 2
  /\ Len(channel) = 1
  /\ IsDisplayEvent(channel[1])
  /\ last.message = WM_DEVICECHANGE
  /\ last.wparam.lo = SPI_SETWORKAREA
  /\ last.res = "Ok"
  /\ ~last.sent

\* C6: while the receiver is alive, every recognized display, settings or
\* device change message appends exactly one DisplaySettingsChanged to the
\* channel, whatever the clock, the mouse-enabled flag, the button flags and
\* the last-emitted timestamp are, and leaves those four fields unchanged.
C6_DisplayEventsAreNotThrottled ==
  [][ (/\ Dispatched
       /\ last'.message \in DisplayClass
       /\ Recognized(last'.message, last'.wparam)
       /\ rxAlive)
      => /\ Len(channel') = Len(channel) + 1
         /\ SubSeq(channel', 1, Len(channel)) = channel
         /\ IsDisplayEvent(channel'[Len(channel')])
         /\ last'.ret = "0"
         /\ UNCHANGED mouseFields ]_vars

\* A DisplaySettingsChanged event less than 50 ms after a MouseMove, with a
\* button held down and mouse events enabled.
C6_Witness ==
  /\ Len(channel) = 2
  /\ IsMouseMove(channel[1])
  /\ IsDisplayEvent(channel[2])
  /\ channel[2].time - channel[1].time < THROTTLE_MS
  /\ channel[2].time - LAST_MOUSE_EVENT_TIME < THROTTLE_MS
  /\ IS_L_MOUSE_DOWN
  /\ ENABLE_MOUSE_EVENTS

(***************************************************************************)
(* The life cycle under fair scheduling: a thread that can take its next   *)
(* step eventually takes it, and the quit message, once in the queue, is   *)
(* eventually retrieved by the message loop.                               *)
(***************************************************************************)
FairSpec ==
  /\ Spec
  /\ WF_vars(ThreadRetrieveQuit)
  /\ WF_vars(ThreadDestroyWindow)
  /\ WF_vars(ThreadKbStop)
  /\ WF_vars(ThreadWeStop)
  /\ WF_vars(DestroyKill)
  /\ WF_vars(DestroyJoin)

DestroyReturned == Len(destroyRets') = Len(destroyRets) + 1

\* C7: every call of destroy after the first one on an EventWindow (the call
\* made by drop included) returns Ok at once, posts no quit message and
\* joins nothing; in the whole life of the EventWindow the quit message is
\* posted at most once and the thread is joined at most once.
C7_LaterDestroyIsNoOp ==
  [][ /\ quitPosts' <= 1
      /\ joins' <= 1
      /\ Len(destroyRets) >= 1 => cpc' = "idle"
      /\ (Len(destroyRets) >= 1 /\ DestroyReturned)
           => /\ destroyRets'[Len(destroyRets')] = "Ok"
              /\ quitPosts' = quitPosts
              /\ joins' = joins
              /\ UNCHANGED <<quitPending, window_thread, thread>> ]_vars

\* destroy was called twice and the EventWindow was then dropped: three
\* returns, one quit message, one join.
C7_Witness ==
  /\ Len(destroyRets) = 3
  /\ ew = "dropped"
  /\ quitPosts = 1
  /\ joins = 1

\* C8: when destroy is called while the window thread is in the message
\* loop, then under fair scheduling the quit message is retrieved, the
\* thread terminates, the join completes and destroy returns; it returns Ok
\* when DestroyWindow and both hook stops succeeded.
C8_DestroyInLoopReturns ==
  (cpc = "kill" /\ destroyAt = "loop")
    ~> (/\ cpc = "idle"
        /\ Len(destroyRets) >= 1
        /\ tpc = "exited"
        /\ ~quitPending
        /\ quitPosts = 1
        /\ joins = 1
        /\ tresult = "Ok" => destroyRets[1] = "Ok")

\* destroy was called in the loop, the thread tore everything down and the
\* first destroy returned Ok.
C8_Witness ==
  /\ destroyAt = "loop"
  /\ Len(destroyRets) >= 1
  /\ destroyRets[1] = "Ok"
  /\ tpc = "exited"
  /\ tresult = "Ok"
  /\ joins = 1

\* C9: whenever the first call of destroy has returned, the window thread
\* has exited and the value returned is the thread's terminal result, or the
\* join-failure error if the thread panicked.
C9_FirstDestroyReturnsThreadResult ==
  Len(destroyRets) >= 1
    => /\ tpc = "exited"
       /\ destroyRets[1] = join_result(tresult)

C11_EventsInProcessingOrder ==
  /\ \A i \in 1..Len(channel) : channel[i].seq \in 1..nProcessed
  /\ \A i, j \in 1..Len(channel) : i < j => channel[i].seq < channel[j].seq

\* A MouseMove from the first message lies before a DisplaySettingsChanged
\* from the second.
C11_Witness ==
  /\ Len(channel) = 2
  /\ IsMouseMove(channel[1]) /\ channel[1].seq = 1
  /\ IsDisplayEvent(channel[2]) /\ channel[2].seq = 2

\* C12: a call of update, interleaved in any way with the dispatch of
\* messages, leaves ENABLE_MOUSE_EVENTS equal to the value it was given and
\* changes neither the sender, the button flags, the timestamp nor the window
\* thread handle; and a WM_INPUT message is decoded (handle_input_msg runs)
\* exactly when the value given to the latest update before its dispatch is
\* true.
C12_UpdateOnlySetsMouseFlag ==
  [][/\ (requested' # requested \/ ENABLE_MOUSE_EVENTS' # ENABLE_MOUSE_EVENTS)
          => /\ ENABLE_MOUSE_EVENTS' = requested'
             /\ UNCHANGED <<PLATFORM_EVENT_TX, IS_L_MOUSE_DOWN, IS_R_MOUSE_DOWN,
                            LAST_MOUSE_EVENT_TIME, window_thread>>
     /\ (Dispatched /\ last'.message = WM_INPUT)
          => ((last'.res # "none") <=> (requested = TRUE))]_vars

\* A button record arrived while mouse events were disabled, update(.., true)
\* was called, and the next WM_INPUT message was decoded.
C12_Witness ==
  /\ nProcessed = 2
  /\ missed
  /\ requested = TRUE
  /\ last.message = WM_INPUT
  /\ last.res # "none"

\* C13: once the message loop has returned the window thread destroys the
\* window, then stops the keyboard hook, then stops the window-event hook, in
\* this order, and its terminal result is the first failure among the three
\* steps (no later step is taken after a failure) or success when all three
\* succeed.
C13_TeardownInOrder ==
  /\ tpc = "destroy_window" => (windowExists /\ kbStarted /\ weStarted)
  /\ tpc = "kb_stop" => (~windowExists /\ kbStarted /\ weStarted)
  /\ tpc = "we_stop" => (~windowExists /\ ~kbStarted /\ weStarted)
  /\ tpc \in {"destroy_window", "kb_stop", "we_stop"}
       => (tresult = "none" /\ rawRegistered)
  /\ tresult = "ErrDestroyWindow"
       => (tpc = "exited" /\ windowExists /\ kbStarted /\ weStarted)
  /\ tresult = "ErrKbStop"
       => (tpc = "exited" /\ ~windowExists /\ kbStarted /\ weStarted)
  /\ tresult = "ErrWeStop"
       => (tpc = "exited" /\ ~windowExists /\ ~kbStarted /\ weStarted)
  /\ tresult = "Ok"
       => (tpc = "exited" /\ ~windowExists /\ ~kbStarted /\ ~weStarted)

\* The window was destroyed and stopping the keyboard hook failed: the thread
\* ended with that failure and the window-event hook was not stopped.
C13_Witness ==
  /\ tpc = "exited"
  /\ tresult = "ErrKbStop"
  /\ ~windowExists
  /\ weStarted

\* C14: the window thread is in its message loop only after both hooks
\* started, the window was created and the raw-input registration was
\* accepted; when one of these four steps fails the thread has terminated with
\* that step's error, without taking any later startup step, without
\* processing a message and without being started again.
C14_StartupFailureEndsThread ==
  /\ spawned <= 1
  /\ tpc = "loop"
       => (kbStarted /\ weStarted /\ windowExists /\ rawRegistered /\ tresult = "none")
  /\ nProcessed > 0 => rawRegistered
  /\ tresult = "ErrKbStart"
       => /\ tpc = "exited" /\ nProcessed = 0
          /\ ~kbStarted /\ ~weStarted /\ ~windowExists /\ ~rawRegistered
  /\ tresult = "ErrWeStart"
       => /\ tpc = "exited" /\ nProcessed = 0
          /\ kbStarted /\ ~weStarted /\ ~windowExists /\ ~rawRegistered
  /\ tresult = "ErrCreateWindow"
       => /\ tpc = "exited" /\ nProcessed = 0
          /\ kbStarted /\ weStarted /\ ~windowExists /\ ~rawRegistered
  /\ tresult = "ErrRegister"
       => /\ tpc = "exited" /\ nProcessed = 0
          /\ kbStarted /\ weStarted /\ windowExists /\ ~rawRegistered

\* The registration was rejected after the window had been created, and a
\* destroy that joined the thread returned the registration error.
C14_Witness ==
  /\ tpc = "exited"
  /\ tresult = "ErrRegister"
  /\ windowExists
  /\ joins = 1
  /\ destroyRets = <<"ErrRegister">>

\* C15: when the handling of a message fails (the send fails because the
\* receiver is gone, or the cursor query fails) the window procedure still
\* returns 0, and the window thread stays in its message loop with its
\* terminal result and its hooks and window untouched.
C15_HandlerFailureStaysInProcedure ==
  [][(Dispatched /\ last'.res = "Err")
       => /\ last'.ret = "0"
          /\ tpc' = "loop"
          /\ UNCHANGED <<tresult, kbStarted, weStarted, windowExists,
                         rawRegistered, quitPending>>]_vars

\* The send of a MouseMove failed because the receiver was gone; later the
\* loop retrieved the quit message, the thread ended with Ok and destroy
\* returned Ok.
C15_Witness ==
  /\ last.message = WM_INPUT
  /\ last.res = "Err"
  /\ last.attempted
  /\ ~rxAlive
  /\ tpc = "exited"
  /\ tresult = "Ok"
  /\ destroyRets = <<"Ok">>

C17_ThrottledInputIsSkipped ==
  [][(/\ Dispatched
      /\ last'.message = WM_INPUT
      /\ ENABLE_MOUSE_EVENTS
      /\ Len(MouseMoves) > 0
      /\ now' - MouseMoves[Len(MouseMoves)].time < THROTTLE_MS)
       => /\ last'.ret = "0"
          /\ last'.res = "Ok"
          /\ ~last'.attempted
          /\ channel' = channel
          /\ UNCHANGED <<IS_L_MOUSE_DOWN, IS_R_MOUSE_DOWN,
                         LAST_MOUSE_EVENT_TIME>>]_vars

\* A left-button-down record arrived 49 ms after an emitted MouseMove: it was
\* skipped and the left-button flag is still false.
C17_Witness ==
  /\ nProcessed = 2
  /\ Len(channel) = 1
  /\ IsMouseMove(channel[1])
  /\ now = channel[1].time + THROTTLE_MS - 1
  /\ last.message = WM_INPUT
  /\ last.throttled
  /\ physL
  /\ ~IS_L_MOUSE_DOWN

\* C18: for a mouse record that is decoded (mouse events enabled, not
\* throttled), the emission of a MouseMove is attempted (the cursor is queried
\* for it) exactly when the record is valid and its motion bitmask passes
\* has_flags(.., MOUSE_MOVE_RELATIVE) or has_flags(.., MOUSE_MOVE_ABSOLUTE); and
\* a record that carries only a button transition, with no displacement and
\* no absolute-movement bit, leads to no attempt and no MouseMove.
EmissionAttempted == last.attempted \/ last.res = "Err"
C18_EmitsExactlyOnMovement ==
  (last.message = WM_INPUT /\ last.res # "none" /\ ~last.throttled)
    => /\ EmissionAttempted <=> last.motion
       /\ last.buttonOnly => (~EmissionAttempted /\ ~last.sent)

\* C19: while no sender is installed, a call of the window procedure returns
\* 0 for a message of any kind, runs no handler, attempts no send, puts
\* nothing on the channel, does not go to DefWindowProcW and changes none of
\* the statics.
C19_UnsetSenderHandlesEverything ==
  [][(Dispatched /\ PLATFORM_EVENT_TX = "unset")
       => /\ last'.ret = "0"
          /\ last'.res = "none"
          /\ ~last'.attempted
          /\ channel' = channel
          /\ UNCHANGED statics]_vars

\* With no sender installed, a display change and then a message of a kind
\* the procedure has no arm for were both answered with 0.
C19_Witness ==
  /\ PLATFORM_EVENT_TX = "unset"
  /\ nProcessed = 2
  /\ Len(channel) = 0
  /\ last.message = WM_TIMER
  /\ last.ret = "0"

\* C20: whenever the window thread has terminated by returning from its
\* closure (after a failed startup step, after the loop and the teardown, or
\* after a failed teardown step), every hook it started has been stopped and
\* the window it created has been destroyed.
C20_TerminatedThreadReleasedEverything ==
  (tpc = "exited" /\ tresult # "Panicked")
    => (~kbStarted /\ ~weStarted /\ ~windowExists)

====
